---- MODULE Spec2Model ----
(***************************************************************************)
(* go-comic-converter: the image worker pool (ePUBImageProcessor.Load,     *)
(* internal/pkg/epubimageprocessor/processor.go) and the spine assembly    *)
(* (Content.getSpineAuto, internal/pkg/epubtemplates/content.go).          *)
(***************************************************************************)
EXTENDS Integers, Sequences, FiniteSets, TLC

\* Bounds of the model.
MaxTasks == 2
MaxWorkers == 2
MaxImages == 5

VARIABLES
    opt,          \* e.EPUBOptions: the flags Load reads
    tasks,        \* the source pages e.load() delivers, in source order
    sent,         \* number of tasks already received from imageInput
    inputClosed,  \* imageInput has been closed by the loader
    mainPc,       \* position of the goroutine running Load
    err,          \* Load's named return err, captured by every worker closure
    wpc,          \* position of each worker goroutine
    winput,       \* each worker's loop variable input
    wimg,         \* each worker's local img
    closerPc,     \* position of the goroutine of lines 120-124
    outputClosed, \* imageOutput has been closed
    images,       \* Load's named return images
    bar,          \* the progress bar: [n |-> Add(1) calls, closed |-> Close calls]
    storage,      \* the storage writer, as the calls it has seen
    emitted,      \* the images sent on imageOutput, in order
    fatal,        \* the messages of utils.Fatalf
    ret,          \* what Load returned
    content,      \* the Content value o: HasTitlePage, ImageOptions, Images
    manifest,     \* the ids of the items of the manifest element
    isOnTheRight, \* getSpineAuto's local isOnTheRight
    spine,        \* getSpineAuto's local spine
    spinePc,      \* position in Content.String and getSpineAuto
    spineI        \* index of the image loop of getSpineAuto (1-based)

loadVars == <<opt, tasks, sent, inputClosed, mainPc, err, wpc, winput, wimg,
              closerPc, outputClosed, images, bar, storage, emitted, fatal, ret>>

spineVars == <<content, manifest, isOnTheRight, spine, spinePc, spineI>>

vars == <<loadVars, spineVars>>

----------------------------------------------------------------------------
\* Geometry of image.Rectangle, as far as Load reads it.

Dx(r) == r[1]
Dy(r) == r[2]

Portrait == <<2, 3>>
Landscape == <<3, 2>>
OnePixel == <<1, 1>>

\* What the filter chain makes of a source page: its bounds, and the bounds
\* of the destination for part 0, 1 and 2.
PageShapes ==
    { [Src |-> Portrait,  Dst |-> <<Portrait, Portrait, Portrait>>],    \* a single page
      [Src |-> Portrait,  Dst |-> <<OnePixel, OnePixel, OnePixel>>],    \* a blank page
      [Src |-> Landscape, Dst |-> <<Landscape, Portrait, Portrait>>],   \* a double page
      [Src |-> Landscape, Dst |-> <<Landscape, OnePixel, Portrait>>],   \* one half blank
      [Src |-> Landscape, Dst |-> <<Portrait, Portrait, Portrait>>] }   \* cropped to portrait

Workers == 1..MaxWorkers

NoInput == [Id |-> -1, Name |-> -1, Src |-> OnePixel, Dst |-> <<OnePixel, OnePixel, OnePixel>>]
NoImage == [Id |-> -1, Part |-> 0, IsBlank |-> FALSE, DoublePage |-> FALSE, Raw |-> FALSE,
            Name |-> -1, Position |-> ""]

\* The task of index i (1-based in the sequence): Id is the 0-based source index.
Task(i, shape) == [Id |-> i - 1, Name |-> i - 1, Src |-> shape.Src, Dst |-> shape.Dst]

TaskLists ==
    UNION { { [i \in 1..n |-> Task(i, f[i])] : f \in [1..n -> PageShapes] } : n \in 0..MaxTasks }

\* transformImage: the fields of the EPUBImage that Load and the spine read.
\* The parameter right selects the half CropSplitDoublePage keeps: it decides
\* pixels only, none of the fields below, and is left out.
transformImage(input, part) ==
    LET srcBounds == input.Src
        dstBounds == input.Dst[part + 1]
        isDoublePage == part = 0 /\ Dx(srcBounds) > Dy(srcBounds) /\ Dx(dstBounds) > Dy(dstBounds)
    IN  [Id |-> input.Id,
         Part |-> part,
         IsBlank |-> Dx(dstBounds) = 1 /\ Dy(dstBounds) = 1,
         DoublePage |-> isDoublePage,
         Raw |-> TRUE,
         Name |-> input.Name,
         Position |-> ""]

----------------------------------------------------------------------------
\* Load, lines 34-142.

Options ==
    [Dry : BOOLEAN, NoBlankImage : BOOLEAN, AutoSplitDoublePage : BOOLEAN,
     KeepDoublePageIfSplit : BOOLEAN, HasCover : BOOLEAN, Workers : Workers]

Keys == (0..(MaxTasks - 1)) \X (0..2)

Key(img) == <<img.Id, img.Part>>

\* The spine assembly has not started: Load is what runs.
SpineIdle ==
    /\ content = [HasTitlePage |-> FALSE,
                  ImageOptions |-> [Manga |-> FALSE, AppleBookCompatibility |-> FALSE,
                                    KeepDoublePageIfSplit |-> FALSE,
                                    View |-> [PortraitOnly |-> FALSE]],
                  Images |-> <<>>]
    /\ manifest = <<>>
    /\ isOnTheRight = FALSE
    /\ spine = <<>>
    /\ spinePc = "idle"
    /\ spineI = 0

LoadStart(o, t) ==
    /\ opt = o
    /\ tasks = t
    /\ sent = 0
    /\ inputClosed = FALSE
    /\ mainPc = "load"
    /\ err = "nil"
    /\ wpc = [w \in Workers |-> "idle"]
    /\ winput = [w \in Workers |-> NoInput]
    /\ wimg = [w \in Workers |-> NoImage]
    /\ closerPc = "idle"
    /\ outputClosed = FALSE
    /\ images = <<>>
    /\ bar = [n |-> 0, closed |-> 0]
    /\ storage = [added |-> [k \in Keys |-> 0], failed |-> {}, closes |-> 0, late |-> FALSE]
    /\ emitted = <<>>
    /\ fatal = <<>>
    /\ ret = [done |-> FALSE, isNil |-> TRUE, images |-> <<>>, err |-> "nil"]

Init ==
    /\ \E o \in Options, t \in TaskLists : LoadStart(o, t)
    /\ SpineIdle

\* utils.Fatalf ends the process: no goroutine takes a step after it.
Alive == fatal = <<>>

\* Line 36: e.load() fails, Load returns (nil, err).
LoadFails ==
    /\ mainPc = "load"
    /\ mainPc' = "returned"
    /\ err' = "load"
    /\ ret' = [done |-> TRUE, isNil |-> TRUE, images |-> <<>>, err |-> "load"]
    /\ UNCHANGED <<opt, tasks, sent, inputClosed, wpc, winput, wimg, closerPc,
                   outputClosed, images, bar, storage, emitted, fatal>>
    /\ UNCHANGED spineVars

\* Lines 36-42 with e.Dry: the dry run starts.
LoadDry ==
    /\ mainPc = "load"
    /\ opt.Dry
    /\ mainPc' = "dry"
    /\ UNCHANGED <<opt, tasks, sent, inputClosed, err, wpc, winput, wimg, closerPc,
                   outputClosed, images, bar, storage, emitted, fatal, ret>>
    /\ UNCHANGED spineVars

\* Lines 43-50: one iteration of the dry loop.
DryRecv ==
    /\ mainPc = "dry"
    /\ sent < Len(tasks)
    /\ sent' = sent + 1
    /\ images' = Append(images, [NoImage EXCEPT !.Id = tasks[sent + 1].Id,
                                                !.Name = tasks[sent + 1].Name])
    /\ UNCHANGED <<opt, tasks, inputClosed, mainPc, err, wpc, winput, wimg, closerPc,
                   outputClosed, bar, storage, emitted, fatal, ret>>
    /\ UNCHANGED spineVars

\* Line 52: imageInput is closed and drained, the dry run returns the list.
DryReturn ==
    /\ mainPc = "dry"
    /\ inputClosed
    /\ sent = Len(tasks)
    /\ mainPc' = "returned"
    /\ ret' = [done |-> TRUE, isNil |-> FALSE, images |-> images, err |-> "nil"]
    /\ UNCHANGED <<opt, tasks, sent, inputClosed, err, wpc, winput, wimg, closerPc,
                   outputClosed, images, bar, storage, emitted, fatal>>
    /\ UNCHANGED spineVars

\* Lines 68-72: NewStorageImageWriter fails, the bar is closed, Load returns (nil, err).
StorageFails ==
    /\ mainPc = "load"
    /\ ~opt.Dry
    /\ mainPc' = "returned"
    /\ err' = "storage"
    /\ bar' = [bar EXCEPT !.closed = @ + 1]
    /\ ret' = [done |-> TRUE, isNil |-> TRUE, images |-> <<>>, err |-> "storage"]
    /\ UNCHANGED <<opt, tasks, sent, inputClosed, wpc, winput, wimg, closerPc,
                   outputClosed, images, storage, emitted, fatal>>
    /\ UNCHANGED spineVars

\* Lines 55-124: the workers and the closing goroutine are started
\* (wg.Add(1) precedes each go statement), Load goes on to its consuming loop.
StartPool ==
    /\ mainPc = "load"
    /\ ~opt.Dry
    /\ mainPc' = "consume"
    /\ err' = "nil"
    /\ wpc' = [w \in Workers |-> IF w <= opt.Workers THEN "range" ELSE "idle"]
    /\ closerPc' = "wait"
    /\ UNCHANGED <<opt, tasks, sent, inputClosed, winput, wimg,
                   outputClosed, images, bar, storage, emitted, fatal, ret>>
    /\ UNCHANGED spineVars

\* The loader closes imageInput once every task has been handed over.
LoaderClose ==
    /\ Alive
    /\ mainPc # "load"
    /\ ~inputClosed
    /\ sent = Len(tasks)
    /\ inputClosed' = TRUE
    /\ UNCHANGED <<opt, tasks, sent, mainPc, err, wpc, winput, wimg, closerPc,
                   outputClosed, images, bar, storage, emitted, fatal, ret>>
    /\ UNCHANGED spineVars

\* WithholdPart0 without the test on the id: the cover's unsplit image is dropped too.
WithholdPart0_AnyId(img, input) ==
    img.DoublePage /\ opt.AutoSplitDoublePage /\ ~opt.KeepDoublePageIfSplit

\* Lines 87-88: the unsplit image of a double page is not kept.
WithholdPart0(img, input) ==
    img.DoublePage /\ input.Id > 0 /\
        opt.AutoSplitDoublePage /\ ~opt.KeepDoublePageIfSplit

\* Lines 101-105: the conditions under which the page is not split.
NoSplit(img) ==
    \/ ~opt.AutoSplitDoublePage
    \/ ~img.DoublePage
    \/ (opt.HasCover /\ img.Id = 0)

\* Lines 100-108 after part 0: the next loop iteration, or the first half.
AfterPart0(input, img) ==
    IF NoSplit(img)
    THEN [pc |-> "range", input |-> NoInput, img |-> NoImage]
    ELSE [pc |-> "add", input |-> input, img |-> transformImage(input, 1)]

\* Lines 107-115 after the send of a half: the second half, or the next iteration.
AfterSplit(input, img) ==
    IF img.Part = 1
    THEN [pc |-> "add", input |-> input, img |-> transformImage(input, 2)]
    ELSE [pc |-> "range", input |-> NoInput, img |-> NoImage]

\* Lines 93-96 and 113: the raw image is dropped, except the cover's.
ReleaseRaw(img) ==
    IF img.Part = 0 /\ ~(img.Id > 0) THEN img ELSE [img EXCEPT !.Raw = FALSE]

\* AllWorkersExited with a wait group that is released by the first wg.Done().
AllWorkersExited_First == \E w \in Workers : w <= opt.Workers /\ wpc[w] = "done"

\* wg.Wait(), line 121: every started worker has run its deferred wg.Done().
AllWorkersExited == \A w \in Workers : w <= opt.Workers => wpc[w] = "done"

\* Lines 83-88: a worker receives a task and transforms it as part 0.
WorkerRecv(w) ==
    /\ Alive
    /\ wpc[w] = "range"
    /\ sent < Len(tasks)
    /\ sent' = sent + 1
    /\ LET input == tasks[sent + 1]
           img == transformImage(input, 0)
           next == IF WithholdPart0(img, input)
                   THEN AfterPart0(input, img)
                   ELSE [pc |-> "add", input |-> input, img |-> img]
       IN  /\ wpc' = [wpc EXCEPT ![w] = next.pc]
           /\ winput' = [winput EXCEPT ![w] = next.input]
           /\ wimg' = [wimg EXCEPT ![w] = next.img]
    /\ UNCHANGED <<opt, tasks, inputClosed, mainPc, err, closerPc,
                   outputClosed, images, bar, storage, emitted, fatal, ret>>
    /\ UNCHANGED spineVars

\* Lines 83 and 81: imageInput is closed and drained, the worker returns.
WorkerExit(w) ==
    /\ Alive
    /\ wpc[w] = "range"
    /\ inputClosed
    /\ sent = Len(tasks)
    /\ wpc' = [wpc EXCEPT ![w] = "done"]
    /\ UNCHANGED <<opt, tasks, sent, inputClosed, mainPc, err, winput, wimg, closerPc,
                   outputClosed, images, bar, storage, emitted, fatal, ret>>
    /\ UNCHANGED spineVars

\* Lines 89 and 109, first half of the if statement: imgStorage.Add is called
\* and its result is stored in the err of Load, shared by all the workers.
WorkerAdd(w) ==
    /\ Alive
    /\ wpc[w] = "add"
    /\ \E ok \in BOOLEAN :
          /\ err' = IF ok THEN "nil" ELSE "add"
          /\ storage' = [storage EXCEPT
                 !.added[Key(wimg[w])] = @ + 1,
                 !.failed = IF ok THEN @ ELSE @ \cup {Key(wimg[w])},
                 !.late = @ \/ storage.closes > 0]
    /\ wpc' = [wpc EXCEPT ![w] = "check"]
    /\ UNCHANGED <<opt, tasks, sent, inputClosed, mainPc, winput, wimg, closerPc,
                   outputClosed, images, bar, emitted, fatal, ret>>
    /\ UNCHANGED spineVars

\* Lines 89-96 and 109-113, second half: the shared err is read; on an error
\* the bar is closed and utils.Fatalf names input.Name.
WorkerCheck(w) ==
    /\ Alive
    /\ wpc[w] = "check"
    /\ IF err # "nil"
       THEN /\ bar' = [bar EXCEPT !.closed = @ + 1]
            /\ fatal' = Append(fatal, [Name |-> winput[w].Name])
            /\ UNCHANGED <<wpc, wimg>>
       ELSE /\ wimg' = [wimg EXCEPT ![w] = ReleaseRaw(@)]
            /\ wpc' = [wpc EXCEPT ![w] = "send"]
            /\ UNCHANGED <<bar, fatal>>
    /\ UNCHANGED <<opt, tasks, sent, inputClosed, mainPc, err, winput, closerPc,
                   outputClosed, images, storage, emitted, ret>>
    /\ UNCHANGED spineVars

\* Lines 127-129: the bar advances on a part 0 image.
BarAdd(img) == IF img.Part = 0 THEN 1 ELSE 0

\* AppendImage that puts the image at the head of the list.
AppendImage_Prepend(list, img) ==
    IF opt.NoBlankImage /\ img.IsBlank THEN list ELSE <<img>> \o list

\* Lines 130-133: the image is appended unless it is a blank one to remove.
AppendImage(list, img) ==
    IF opt.NoBlankImage /\ img.IsBlank THEN list ELSE Append(list, img)

\* Lines 97 and 114 with lines 126-134: imageOutput is unbuffered, the send
\* completes with the receive of Load's loop, whose body follows.
WorkerSend(w) ==
    /\ Alive
    /\ wpc[w] = "send"
    /\ mainPc = "consume"
    /\ ~outputClosed
    /\ emitted' = Append(emitted, wimg[w])
    /\ bar' = [bar EXCEPT !.n = @ + BarAdd(wimg[w])]
    /\ images' = AppendImage(images, wimg[w])
    /\ LET next == IF wimg[w].Part = 0
                   THEN AfterPart0(winput[w], wimg[w])
                   ELSE AfterSplit(winput[w], wimg[w])
       IN  /\ wpc' = [wpc EXCEPT ![w] = next.pc]
           /\ winput' = [winput EXCEPT ![w] = next.input]
           /\ wimg' = [wimg EXCEPT ![w] = next.img]
    /\ UNCHANGED <<opt, tasks, sent, inputClosed, mainPc, err, closerPc,
                   outputClosed, storage, fatal, ret>>
    /\ UNCHANGED spineVars

\* Line 121: wg.Wait() returns.
CloserWait ==
    /\ Alive
    /\ closerPc = "wait"
    /\ AllWorkersExited
    /\ closerPc' = "closeStorage"
    /\ UNCHANGED <<opt, tasks, sent, inputClosed, mainPc, err, wpc, winput, wimg,
                   outputClosed, images, bar, storage, emitted, fatal, ret>>
    /\ UNCHANGED spineVars

\* CloserCloseStorage without the call of imgStorage.Close().
CloserCloseStorage_Skip ==
    /\ Alive
    /\ closerPc = "closeStorage"
    /\ closerPc' = "closeOutput"
    /\ UNCHANGED <<opt, tasks, sent, inputClosed, mainPc, err, wpc, winput, wimg,
                   outputClosed, images, bar, storage, emitted, fatal, ret>>
    /\ UNCHANGED spineVars

\* Line 122: imgStorage.Close().
CloserCloseStorage ==
    /\ Alive
    /\ closerPc = "closeStorage"
    /\ storage' = [storage EXCEPT !.closes = @ + 1]
    /\ closerPc' = "closeOutput"
    /\ UNCHANGED <<opt, tasks, sent, inputClosed, mainPc, err, wpc, winput, wimg,
                   outputClosed, images, bar, emitted, fatal, ret>>
    /\ UNCHANGED spineVars

\* CloserCloseOutput without close(imageOutput).
CloserCloseOutput_Skip ==
    /\ Alive
    /\ closerPc = "closeOutput"
    /\ closerPc' = "done"
    /\ UNCHANGED <<opt, tasks, sent, inputClosed, mainPc, err, wpc, winput, wimg,
                   outputClosed, images, bar, storage, emitted, fatal, ret>>
    /\ UNCHANGED spineVars

\* Line 123: close(imageOutput).
CloserCloseOutput ==
    /\ Alive
    /\ closerPc = "closeOutput"
    /\ outputClosed' = TRUE
    /\ closerPc' = "done"
    /\ UNCHANGED <<opt, tasks, sent, inputClosed, mainPc, err, wpc, winput, wimg,
                   images, bar, storage, emitted, fatal, ret>>
    /\ UNCHANGED spineVars

\* LoadResult without the test of lines 137-139.
LoadResult_NoCheck(list) ==
    [done |-> TRUE, isNil |-> FALSE, images |-> list, err |-> "nil"]

\* Lines 137-141: the value Load returns for its list.
LoadResult(list) ==
    IF Len(list) = 0
    THEN [done |-> TRUE, isNil |-> TRUE, images |-> <<>>, err |-> "errNoImagesFound"]
    ELSE [done |-> TRUE, isNil |-> FALSE, images |-> list, err |-> "nil"]

\* Lines 126 and 135-141: imageOutput is closed, the loop ends and Load returns.
ConsumerReturn ==
    /\ Alive
    /\ mainPc = "consume"
    /\ outputClosed
    /\ bar' = [bar EXCEPT !.closed = @ + 1]
    /\ ret' = LoadResult(images)
    /\ mainPc' = "returned"
    /\ UNCHANGED <<opt, tasks, sent, inputClosed, err, wpc, winput, wimg, closerPc,
                   outputClosed, images, storage, emitted, fatal>>
    /\ UNCHANGED spineVars

Next ==
    \/ LoadFails
    \/ LoadDry
    \/ DryRecv
    \/ DryReturn
    \/ StorageFails
    \/ StartPool
    \/ LoaderClose
    \/ \E w \in Workers : WorkerRecv(w)
    \/ \E w \in Workers : WorkerExit(w)
    \/ \E w \in Workers : WorkerAdd(w)
    \/ \E w \in Workers : WorkerCheck(w)
    \/ \E w \in Workers : WorkerSend(w)
    \/ CloserWait
    \/ CloserCloseStorage
    \/ CloserCloseOutput
    \/ ConsumerReturn

Spec == Init /\ [][Next]_vars

\* The scheduler runs some goroutine that can take a step, and the loader
\* closes imageInput once it has handed over its tasks.
FairSpec == Init /\ [][Next]_vars /\ WF_vars(Next)

----------------------------------------------------------------------------
\* Properties of Load.

Count(seq, x) == Cardinality({i \in DOMAIN seq : seq[i] = x})

\* Load has returned from its consuming loop (lines 135-141).
PoolReturned == ret.done /\ ~opt.Dry /\ ret.err \in {"nil", "errNoImagesFound"}

EveryWorkerDone == \A w \in 1..opt.Workers : wpc[w] = "done"

Emitted(id, part) == \E i \in DOMAIN emitted : emitted[i].Id = id /\ emitted[i].Part = part

IsSplit(id) == Emitted(id, 1) /\ Emitted(id, 2)

TaskIds == {tasks[i].Id : i \in DOMAIN tasks}

Removed(img) == opt.NoBlankImage /\ img.IsBlank

\* C1: imageOutput is closed only once every worker has exited, and the list
\* holds each image sent by a worker exactly once, except the blank ones when
\* NoBlankImage is set, which it does not hold: nothing is lost or duplicated.
C1_ExactlyOnce ==
    /\ outputClosed => EveryWorkerDone
    /\ ~opt.Dry =>
          /\ \A i \in DOMAIN emitted :
                Count(images, emitted[i]) = IF Removed(emitted[i]) THEN 0 ELSE 1
          /\ \A i \in DOMAIN images : Count(emitted, images[i]) = 1
    /\ PoolReturned /\ ~ret.isNil => ret.images = images
    /\ PoolReturned /\ ret.isNil => images = <<>>

\* Two workers have sent images, one of them blank and removed, and Load has returned.
C1_Witness ==
    /\ PoolReturned
    /\ opt.Workers >= 2
    /\ opt.NoBlankImage
    /\ \E i, j \in DOMAIN emitted : emitted[i].IsBlank /\ ~emitted[j].IsBlank
    /\ Len(ret.images) < Len(emitted)

\* C2: once an Add has returned an error, no worker goes on to send the image
\* of that Add, and Load does not return.
C2_AbortOnAddError ==
    /\ \A i \in DOMAIN emitted : Key(emitted[i]) \notin storage.failed
    /\ ret.done => storage.failed = {}

\* C3, as claimed: for every page, part 0 is emitted unless the page is split
\* and KeepDoublePageIfSplit is off, and then it is withheld; with
\* KeepDoublePageIfSplit on, a split page has its three variants.
C3_Part0UnlessSplit ==
    PoolReturned =>
        \A id \in TaskIds :
            /\ Emitted(id, 0) <=> ~(IsSplit(id) /\ ~opt.KeepDoublePageIfSplit)
            /\ Emitted(id, 1) <=> Emitted(id, 2)

\* C3, amended: part 0 is withheld exactly for the split pages of id > 0 when
\* KeepDoublePageIfSplit is off; the page of id 0, when split, keeps its part 0
\* beside its two halves; the halves are emitted together or not at all.
C3_Part0UnlessSplitAfterCover ==
    PoolReturned =>
        \A id \in TaskIds :
            /\ Emitted(id, 0) <=> ~(IsSplit(id) /\ ~opt.KeepDoublePageIfSplit /\ id > 0)
            /\ Emitted(id, 1) <=> Emitted(id, 2)

\* Page 0 is split and keeps its part 0, page 1 is split and has lost it.
C3_Witness ==
    /\ PoolReturned
    /\ ~opt.KeepDoublePageIfSplit
    /\ IsSplit(0) /\ Emitted(0, 0)
    /\ IsSplit(1) /\ ~Emitted(1, 0)

Sorted(list) ==
    \A i, j \in DOMAIN list :
        i < j => \/ list[i].Id < list[j].Id
                 \/ (list[i].Id = list[j].Id /\ list[i].Part < list[j].Part)

PartsInOrder(list) ==
    \A i, j \in DOMAIN list :
        i < j /\ list[i].Id = list[j].Id => list[i].Part < list[j].Part

\* C4, as claimed: the list Load returns is ordered by (id, part).
C4_Sorted == PoolReturned => Sorted(ret.images)

\* C4, amended: Load returns the images in the order of their arrival. The
\* variants of one page are in the order of their parts; the whole list is
\* ordered by (id, part) when one worker alone takes the tasks in id order.
C4_ArrivalOrder ==
    PoolReturned =>
        /\ PartsInOrder(ret.images)
        /\ opt.Workers = 1 => Sorted(ret.images)

\* Two workers: a later page is in the list before an earlier one, and a page
\* has several variants in the list.
C4_Witness ==
    /\ PoolReturned
    /\ opt.Workers >= 2
    /\ \E i, j \in DOMAIN ret.images : i < j /\ ret.images[i].Id > ret.images[j].Id
    /\ \E i, j \in DOMAIN ret.images : i < j /\ ret.images[i].Id = ret.images[j].Id

\* C5: Add is called once for every variant and has been called when the
\* variant is sent; Close is called once, after every worker has exited, no
\* Add is called after it, and imageOutput is closed after it.
C5_StorageProtocol ==
    /\ \A k \in Keys : storage.added[k] <= 1
    /\ \A i \in DOMAIN emitted : storage.added[Key(emitted[i])] = 1
    /\ \A w \in Workers : wpc[w] = "send" => storage.added[Key(wimg[w])] = 1
    /\ storage.closes <= 1
    /\ storage.closes >= 1 => EveryWorkerDone
    /\ ~storage.late
    /\ outputClosed => storage.closes = 1
    /\ PoolReturned => storage.closes = 1

\* Load has returned after two workers have stored and sent three images or more.
C5_Witness ==
    /\ PoolReturned
    /\ opt.Workers >= 2
    /\ Len(emitted) >= 3
    /\ storage.closes = 1

\* C6: when Load returns its list, the bar has advanced once for every task.
C6_BarCountsEveryTask ==
    PoolReturned /\ ret.err = "nil" => bar.n = Len(tasks)

\* C7: a Load that is no dry run does not return an empty list without an
\* error: when no image is left after the removal of the blank ones it returns
\* nil and errNoImagesFound, and otherwise the images that are left and no error.
C7_NonEmptyOrError ==
    /\ ret.done /\ ~opt.Dry /\ ret.err = "nil" => ~ret.isNil /\ Len(ret.images) > 0
    /\ PoolReturned =>
          LET Left(img) == ~Removed(img)
              left == SelectSeq(emitted, Left)
          IN  IF left = <<>>
              THEN ret.isNil /\ ret.err = "errNoImagesFound"
              ELSE ~ret.isNil /\ ret.err = "nil" /\ ret.images = left

\* A single image, blank and removed: Load returns errNoImagesFound.
C7_Witness ==
    /\ PoolReturned
    /\ Len(tasks) = 1
    /\ Len(emitted) = 1
    /\ emitted[1].IsBlank
    /\ ret.err = "errNoImagesFound"

\* C8: a fatal message names a source image one of whose Add calls failed.
C8_FatalNamesFailedImage ==
    \A i \in DOMAIN fatal : \E k \in storage.failed : k[1] = fatal[i].Name

Finished ==
    /\ mainPc = "returned"
    /\ EveryWorkerDone
    /\ storage.closes = 1
    /\ outputClosed

\* C9: once the pool is started, either an Add fails or every worker exits,
\* the storage writer and imageOutput are closed and Load returns.
C9_Terminates == (closerPc = "wait") ~> (Finished \/ storage.failed # {})

\* Load has returned after two workers have shared two tasks, no Add having failed.
C9_Witness ==
    /\ Finished
    /\ PoolReturned
    /\ opt.Workers >= 2
    /\ Len(tasks) >= 2
    /\ storage.failed = {}

----------------------------------------------------------------------------
\* Content.getSpineAuto, content.go lines 195-257.

\* The image lists handed to the spine: what Load returns once sorted by
\* (id, part). An entry is the unsplit page, a double page, or a half.
ImageShapes ==
    { [Part |-> 0, DoublePage |-> FALSE],
      [Part |-> 0, DoublePage |-> TRUE],
      [Part |-> 1, DoublePage |-> FALSE],
      [Part |-> 2, DoublePage |-> FALSE] }

\* Entry i carries on the page of entry i-1 when it is a later part of it.
SamePage(prev, cur) ==
    cur.Part > prev.Part /\ (prev.Part = 0 => prev.DoublePage)

ImageIds(f) ==
    LET id[i \in DOMAIN f] ==
            IF i = 1 THEN 0
            ELSE IF SamePage(f[i - 1], f[i]) THEN id[i - 1] ELSE id[i - 1] + 1
    IN  id

ImageList(f) ==
    [i \in DOMAIN f |->
        [NoImage EXCEPT !.Id = ImageIds(f)[i], !.Name = ImageIds(f)[i],
                        !.Part = f[i].Part, !.DoublePage = f[i].DoublePage]]

ImageLists ==
    UNION { { ImageList(f) : f \in [1..n -> ImageShapes] } : n \in 1..MaxImages }

Contents ==
    [HasTitlePage : BOOLEAN,
     ImageOptions : [Manga : BOOLEAN, AppleBookCompatibility : BOOLEAN,
                     KeepDoublePageIfSplit : BOOLEAN,
                     View : [PortraitOnly : BOOLEAN]],
     Images : ImageLists]

\* Load is not running: the spine assembly is what runs.
LoadIdle ==
    /\ LoadStart([Dry |-> FALSE, NoBlankImage |-> FALSE, AutoSplitDoublePage |-> FALSE,
                  KeepDoublePageIfSplit |-> FALSE, HasCover |-> FALSE, Workers |-> 1], <<>>)

SpineInit ==
    /\ LoadIdle
    /\ content \in Contents
    /\ manifest = <<>>
    /\ isOnTheRight = FALSE
    /\ spine = <<>>
    /\ spinePc = "manifest"
    /\ spineI = 0

SpreadCenter == "rendition:page-spread-center"
SpreadRight == "rendition:page-spread-right"
SpreadLeft == "rendition:page-spread-left"
LayoutBlank == "layout-blank"

\* The keys of the resources: the page of an image, its spacer, the title
\* page and its spacer.
PageKey(img) == [kind |-> "page", Id |-> img.Id, Part |-> img.Part]
SpaceKey(img) == [kind |-> "space", Id |-> img.Id, Part |-> 0]
PageTitle == [kind |-> "page_title", Id |-> -1, Part |-> 0]
SpaceTitle == [kind |-> "space_title", Id |-> -1, Part |-> 0]

\* An itemref tag; properties is the list of its space-separated tokens.
ItemRef(idref, properties) == [name |-> "itemref", idref |-> idref, properties |-> properties]

\* The keys of the other items of the manifest.
ImgKey(img) == [kind |-> "img", Id |-> img.Id, Part |-> img.Part]
FixedItem(kind) == [kind |-> kind, Id |-> -1, Part |-> 0]

\* Lines 181-184: the image gets a spacer item in the manifest.
WithSpace(o, img) ==
    LET lastImage == o.Images[Len(o.Images)]
    IN  ~o.ImageOptions.View.PortraitOnly /\
            (img.DoublePage \/
             (~o.ImageOptions.KeepDoublePageIfSplit /\ img.Part = 1) \/
             (img.Part = 0 /\ img = lastImage))

\* Lines 143-192, getManifest: the ids of the items, in order.
getManifest(o) ==
    LET Spaced(img) == WithSpace(o, img)
        spaced == SelectSeq(o.Images, Spaced)
        items == <<FixedItem("toc"), FixedItem("css"), FixedItem("page_cover"),
                   FixedItem("img_cover")>>
        title == IF o.HasTitlePage
                 THEN <<PageTitle, FixedItem("img_title")>> \o
                      (IF ~o.ImageOptions.View.PortraitOnly THEN <<SpaceTitle>> ELSE <<>>)
                 ELSE <<>>
        imageTags == [i \in DOMAIN o.Images |-> ImgKey(o.Images[i])]
        pageTags == [i \in DOMAIN o.Images |-> PageKey(o.Images[i])]
        spaceTags == [i \in DOMAIN spaced |-> SpaceKey(spaced[i])]
    IN  items \o title \o imageTags \o pageTags \o spaceTags

\* Lines 64-65 of Content.String: the manifest is built before the spine.
ContentManifest ==
    /\ spinePc = "manifest"
    /\ manifest' = getManifest(content)
    /\ spinePc' = "start"
    /\ UNCHANGED <<content, isOnTheRight, spine, spineI>>
    /\ UNCHANGED loadVars

\* getSpinePortrait that leaves the title page out.
getSpinePortrait_NoTitle(o) ==
    [i \in DOMAIN o.Images |-> ItemRef(PageKey(o.Images[i]), <<>>)]

\* Lines 259-274, getSpinePortrait: itemrefs with an idref and nothing else.
getSpinePortrait(o) ==
    (IF o.HasTitlePage THEN <<ItemRef(PageTitle, <<>>)>> ELSE <<>>) \o
        [i \in DOMAIN o.Images |-> ItemRef(PageKey(o.Images[i]), <<>>)]

\* Lines 74-75 of Content.String: with PortraitOnly the spine is getSpinePortrait's.
SpinePortrait ==
    /\ spinePc = "start"
    /\ content.ImageOptions.View.PortraitOnly
    /\ spine' = getSpinePortrait(content)
    /\ spinePc' = "done"
    /\ UNCHANGED <<content, manifest, isOnTheRight, spineI>>
    /\ UNCHANGED loadVars

\* InitialOnTheRight without the inversion of the compatibility mode.
InitialOnTheRight_NoCompat(o) == ~o.ImageOptions.Manga

\* Lines 196-199: the orientation the walk starts from.
InitialOnTheRight(o) ==
    IF o.ImageOptions.AppleBookCompatibility
    THEN ~(~o.ImageOptions.Manga)
    ELSE ~o.ImageOptions.Manga

\* getSpread whose double page keeps the toggled side instead of starting over.
getSpread_NoReset(o, r, isDoublePage) ==
    IF isDoublePage
    THEN [spread |-> SpreadCenter, isOnTheRight |-> ~r]
    ELSE IF ~r
         THEN [spread |-> SpreadRight, isOnTheRight |-> ~r]
         ELSE [spread |-> SpreadLeft, isOnTheRight |-> ~r]

\* Lines 200-212, getSpread: from the carried isOnTheRight r, the string
\* returned and the isOnTheRight left behind.
getSpread(o, r, isDoublePage) ==
    IF isDoublePage
    THEN [spread |-> SpreadCenter, isOnTheRight |-> ~o.ImageOptions.Manga]
    ELSE IF ~r
         THEN [spread |-> SpreadRight, isOnTheRight |-> ~r]
         ELSE [spread |-> SpreadLeft, isOnTheRight |-> ~r]

\* getSpreadBlank that is a centered blank and stands outside the alternation.
getSpreadBlank_Center(o, r) ==
    [properties |-> <<SpreadCenter, LayoutBlank>>, isOnTheRight |-> ~r]

\* getSpreadBlank that names a side without taking it.
getSpreadBlank_NoToggle(o, r) ==
    [properties |-> <<getSpread(o, r, FALSE).spread, LayoutBlank>>,
     isOnTheRight |-> r]

\* Lines 213-215, getSpreadBlank: getSpread(false) + " layout-blank".
getSpreadBlank(o, r) ==
    [properties |-> <<getSpread(o, r, FALSE).spread, LayoutBlank>>,
     isOnTheRight |-> getSpread(o, r, FALSE).isOnTheRight]

\* Lines 74-78 and 196-199: getSpineAuto is what builds the spine unless
\* PortraitOnly is set.
SpineStart ==
    /\ spinePc = "start"
    /\ ~content.ImageOptions.View.PortraitOnly
    /\ isOnTheRight' = InitialOnTheRight(content)
    /\ spinePc' = "title"
    /\ UNCHANGED <<content, manifest, spine, spineI>>
    /\ UNCHANGED loadVars

\* SpineTitle that gives the title page its spacer in compatibility mode too.
SpineTitle_AlwaysSpacer ==
    /\ spinePc = "title"
    /\ IF content.HasTitlePage
       THEN LET blank == getSpreadBlank(content, isOnTheRight)
                page == getSpread(content, blank.isOnTheRight, FALSE)
            IN  /\ spine' = spine \o <<ItemRef(SpaceTitle, blank.properties),
                                       ItemRef(PageTitle, <<page.spread>>)>>
                /\ isOnTheRight' = page.isOnTheRight
       ELSE UNCHANGED <<spine, isOnTheRight>>
    /\ spinePc' = "images"
    /\ spineI' = 1
    /\ UNCHANGED <<content, manifest>>
    /\ UNCHANGED loadVars

\* Lines 217-229: the title page, with its spacer unless in compatibility mode.
SpineTitle ==
    /\ spinePc = "title"
    /\ IF content.HasTitlePage
       THEN IF ~content.ImageOptions.AppleBookCompatibility
            THEN LET blank == getSpreadBlank(content, isOnTheRight)
                     page == getSpread(content, blank.isOnTheRight, FALSE)
                 IN  /\ spine' = spine \o <<ItemRef(SpaceTitle, blank.properties),
                                            ItemRef(PageTitle, <<page.spread>>)>>
                     /\ isOnTheRight' = page.isOnTheRight
            ELSE LET page == getSpread(content, isOnTheRight, TRUE)
                 IN  /\ spine' = Append(spine, ItemRef(PageTitle, <<page.spread>>))
                     /\ isOnTheRight' = page.isOnTheRight
       ELSE UNCHANGED <<spine, isOnTheRight>>
    /\ spinePc' = "images"
    /\ spineI' = 1
    /\ UNCHANGED <<content, manifest>>
    /\ UNCHANGED loadVars

\* NeedsSpaceBefore that looks at double pages only.
NeedsSpaceBefore_DoubleOnly(o, r, img) ==
    img.DoublePage /\ o.ImageOptions.Manga = r

\* NeedsSpaceBefore that does not look at the carried side.
NeedsSpaceBefore_AnySide(o, r, img) ==
    img.DoublePage \/ img.Part = 1

\* Line 231: a spacer goes before the image.
NeedsSpaceBefore(o, r, img) ==
    (img.DoublePage \/ img.Part = 1) /\ o.ImageOptions.Manga = r

\* Lines 230-247: one iteration of the loop over o.Images.
SpineImage ==
    /\ spinePc = "images"
    /\ spineI <= Len(content.Images)
    /\ LET img == content.Images[spineI]
           withSpace == NeedsSpaceBefore(content, isOnTheRight, img)
           blank == getSpreadBlank(content, isOnTheRight)
           r1 == IF withSpace THEN blank.isOnTheRight ELSE isOnTheRight
           sp1 == IF withSpace
                  THEN Append(spine, ItemRef(SpaceKey(img), blank.properties))
                  ELSE spine
           page == getSpread(content, r1, img.DoublePage)
       IN  /\ spine' = Append(sp1, ItemRef(PageKey(img), <<page.spread>>))
           /\ isOnTheRight' = page.isOnTheRight
           /\ content' = [content EXCEPT !.Images[spineI].Position = page.spread]
    /\ spineI' = spineI + 1
    /\ UNCHANGED <<manifest, spinePc>>
    /\ UNCHANGED loadVars

\* NeedsSpaceAfter that closes every spine with a spacer.
NeedsSpaceAfter_Always(o, r) == TRUE

\* NeedsSpaceAfter that never closes the spine with a spacer.
NeedsSpaceAfter_Never(o, r) == FALSE

\* Line 248: a spacer closes the spine.
NeedsSpaceAfter(o, r) == o.ImageOptions.Manga = r

\* Lines 248-256: the trailing spacer, and the return.
SpineTrailing ==
    /\ spinePc = "images"
    /\ spineI > Len(content.Images)
    /\ LET last == content.Images[Len(content.Images)]
           page == getSpread(content, isOnTheRight, FALSE)
       IN  IF NeedsSpaceAfter(content, isOnTheRight)
           THEN /\ spine' = Append(spine, ItemRef(SpaceKey(last), <<page.spread>>))
                /\ isOnTheRight' = page.isOnTheRight
           ELSE UNCHANGED <<spine, isOnTheRight>>
    /\ spinePc' = "done"
    /\ UNCHANGED <<content, manifest, spineI>>
    /\ UNCHANGED loadVars

\* Lines 195-257, getSpineAuto as a function of o: the spine it returns and the
\* positions it writes to o.Images.
getSpineAuto(o) ==
    LET r0 == InitialOnTheRight(o)
        blank0 == getSpreadBlank(o, r0)
        page0 == getSpread(o, blank0.isOnTheRight, FALSE)
        center0 == getSpread(o, r0, TRUE)
        title ==
            IF o.HasTitlePage
            THEN IF ~o.ImageOptions.AppleBookCompatibility
                 THEN [spine |-> <<ItemRef(SpaceTitle, blank0.properties),
                                   ItemRef(PageTitle, <<page0.spread>>)>>,
                       isOnTheRight |-> page0.isOnTheRight]
                 ELSE [spine |-> <<ItemRef(PageTitle, <<center0.spread>>)>>,
                       isOnTheRight |-> center0.isOnTheRight]
            ELSE [spine |-> <<>>, isOnTheRight |-> r0]
        walk[i \in 0..Len(o.Images)] ==
            IF i = 0
            THEN [spine |-> title.spine, isOnTheRight |-> title.isOnTheRight,
                  positions |-> <<>>]
            ELSE LET prev == walk[i - 1]
                     img == o.Images[i]
                     withSpace == NeedsSpaceBefore(o, prev.isOnTheRight, img)
                     blank == getSpreadBlank(o, prev.isOnTheRight)
                     r1 == IF withSpace THEN blank.isOnTheRight ELSE prev.isOnTheRight
                     sp1 == IF withSpace
                            THEN Append(prev.spine, ItemRef(SpaceKey(img), blank.properties))
                            ELSE prev.spine
                     page == getSpread(o, r1, img.DoublePage)
                 IN  [spine |-> Append(sp1, ItemRef(PageKey(img), <<page.spread>>)),
                      isOnTheRight |-> page.isOnTheRight,
                      positions |-> Append(prev.positions, page.spread)]
        end == walk[Len(o.Images)]
        last == o.Images[Len(o.Images)]
    IN  IF NeedsSpaceAfter(o, end.isOnTheRight)
        THEN [spine |-> Append(end.spine,
                               ItemRef(SpaceKey(last),
                                       <<getSpread(o, end.isOnTheRight, FALSE).spread>>)),
              positions |-> end.positions]
        ELSE [spine |-> end.spine, positions |-> end.positions]

SpineNext ==
    \/ ContentManifest
    \/ SpinePortrait
    \/ SpineStart
    \/ SpineTitle
    \/ SpineImage
    \/ SpineTrailing

SpineSpec == SpineInit /\ [][SpineNext]_vars

----------------------------------------------------------------------------
\* Properties of the spine.

Positions == [i \in DOMAIN content.Images |-> content.Images[i].Position]

\* getSpineAuto has returned.
AutoDone == spinePc = "done" /\ ~content.ImageOptions.View.PortraitOnly

\* No double page and no first half: every image takes part in the alternation.
OnlySinglePages ==
    \A i \in DOMAIN content.Images :
        ~content.Images[i].DoublePage /\ content.Images[i].Part # 1

\* C10: without a title page, single pages alternate between left and right;
\* the first one is on the right exactly when manga and the compatibility
\* mode differ, so that manga without compatibility gives right, left, right, ...
C10_Alternates ==
    AutoDone /\ ~content.HasTitlePage /\ OnlySinglePages =>
        \A i \in DOMAIN content.Images :
            content.Images[i].Position =
                IF (i % 2 = 1) = (content.ImageOptions.Manga # content.ImageOptions.AppleBookCompatibility)
                THEN SpreadRight
                ELSE SpreadLeft

\* Manga without compatibility mode and without title page: five single pages
\* have got right, left, right, left, right.
C10_Witness ==
    /\ AutoDone
    /\ ~content.HasTitlePage
    /\ content.ImageOptions.Manga /\ ~content.ImageOptions.AppleBookCompatibility
    /\ OnlySinglePages
    /\ Len(content.Images) >= 5
    /\ SubSeq(Positions, 1, 5) = <<SpreadRight, SpreadLeft, SpreadRight, SpreadLeft, SpreadRight>>

\* Image i has been given its entry in the spine by getSpineAuto.
Placed(i) == i \in DOMAIN content.Images /\ spinePc \in {"images", "done"} /\ i < spineI

\* The side on which a spread begins, and the side on which it ends.
OpeningSide == IF content.ImageOptions.Manga THEN SpreadRight ELSE SpreadLeft
ClosingSide == IF content.ImageOptions.Manga THEN SpreadLeft ELSE SpreadRight

\* C11: in the auto spine every double page is centered wherever it occurs, the
\* carried isOnTheRight is ~Manga right after it, and the page that follows it,
\* when it is not itself a double page, is on the right in manga mode and on the
\* left otherwise, whatever came before.
C11_DoublePageCenter ==
    \A i \in DOMAIN content.Images :
        Placed(i) /\ content.Images[i].DoublePage =>
            /\ content.Images[i].Position = SpreadCenter
            /\ (spinePc = "images" /\ i = spineI - 1 =>
                    isOnTheRight = ~content.ImageOptions.Manga)
            /\ (Placed(i + 1) /\ ~content.Images[i + 1].DoublePage =>
                    content.Images[i + 1].Position = OpeningSide)

\* A manga run with a double page after an odd and after an even number of single
\* pages, each followed by a single page on the right.
C11_Witness ==
    /\ AutoDone
    /\ content.ImageOptions.Manga
    /\ ~content.HasTitlePage
    /\ Len(content.Images) = 5
    /\ [i \in 1..5 |-> content.Images[i].DoublePage] = <<FALSE, TRUE, FALSE, TRUE, FALSE>>
    /\ [i \in 1..5 |-> content.Images[i].Part] = <<0, 0, 0, 0, 0>>
    /\ Positions = <<SpreadRight, SpreadCenter, SpreadRight, SpreadCenter, SpreadRight>>

\* C12 as stated: the first half of a split double page (part 1) is centered and
\* the carried isOnTheRight is ~Manga right after it, as for a double page.
C12_FirstHalfCenter ==
    \A i \in DOMAIN content.Images :
        Placed(i) /\ content.Images[i].Part = 1 =>
            /\ content.Images[i].Position = SpreadCenter
            /\ (spinePc = "images" /\ i = spineI - 1 =>
                    isOnTheRight = ~content.ImageOptions.Manga)

\* C12, amended: the first half of a split double page (part 1) is never centered;
\* it is on the side on which a spread begins (right in manga mode, left
\* otherwise), the carried isOnTheRight equals Manga right after it, and a second
\* half (part 2) that follows it is on the other side.
C12_FirstHalfOpens ==
    \A i \in DOMAIN content.Images :
        Placed(i) /\ content.Images[i].Part = 1 =>
            /\ content.Images[i].Position = OpeningSide
            /\ (spinePc = "images" /\ i = spineI - 1 =>
                    isOnTheRight = content.ImageOptions.Manga)
            /\ (Placed(i + 1) /\ content.Images[i + 1].Part = 2 =>
                    content.Images[i + 1].Position = ClosingSide)

\* A single page on the left, then the two halves of a split page: the first half
\* is on the left again, behind a spacer, and the second on the right.
C12_Witness ==
    /\ AutoDone
    /\ ~content.ImageOptions.Manga /\ ~content.ImageOptions.AppleBookCompatibility
    /\ ~content.HasTitlePage
    /\ Len(content.Images) = 3
    /\ [i \in 1..3 |-> content.Images[i].Part] = <<0, 1, 2>>
    /\ ~content.Images[1].DoublePage
    /\ Positions = <<SpreadLeft, SpreadLeft, SpreadRight>>
    /\ Len(spine) = 4
    /\ spine[2].idref = SpaceKey(content.Images[2])

\* C13: the iteration that reaches a page puts a spacer entry, referencing the
\* page's own spacer, immediately before the page's entry exactly when the page
\* is a double page or a first half and Manga equals the isOnTheRight carried at
\* that moment; otherwise the page's entry is the only one added.
C13_SpacerBeforeIff ==
    [][spinePc = "images" /\ spineI' = spineI + 1 =>
        LET img == content.Images[spineI]
            n == Len(spine)
        IN  /\ SubSeq(spine', 1, n) = spine
            /\ IF (img.DoublePage \/ img.Part = 1) /\
                       content.ImageOptions.Manga = isOnTheRight
               THEN /\ Len(spine') = n + 2
                    /\ spine'[n + 1].idref = SpaceKey(img)
                    /\ spine'[n + 2].idref = PageKey(img)
               ELSE /\ Len(spine') = n + 1
                    /\ spine'[n + 1].idref = PageKey(img)]_vars

\* A finished spine with a double page right behind its spacer, a double page
\* right behind another page, and a single page right behind another page.
C13_Witness ==
    /\ AutoDone
    /\ \E i \in DOMAIN content.Images, j \in DOMAIN spine :
            /\ content.Images[i].DoublePage
            /\ j > 1
            /\ spine[j].idref = PageKey(content.Images[i])
            /\ spine[j - 1].idref = SpaceKey(content.Images[i])
    /\ \E i \in DOMAIN content.Images, j \in DOMAIN spine :
            /\ content.Images[i].DoublePage
            /\ j > 1
            /\ spine[j].idref = PageKey(content.Images[i])
            /\ spine[j - 1].idref.kind = "page"
    /\ \E i \in DOMAIN content.Images, j \in DOMAIN spine :
            /\ ~content.Images[i].DoublePage /\ content.Images[i].Part = 0
            /\ j > 1
            /\ spine[j].idref = PageKey(content.Images[i])
            /\ spine[j - 1].idref.kind = "page"

\* The spacer entries that stand before a page: every spacer but a trailing one.
BlankSpacers ==
    { j \in DOMAIN spine : j < Len(spine) /\ spine[j].idref.kind \in {"space", "space_title"} }

\* C14 as stated: every blank spacer entry of the auto spine is centered and
\* carries the blank-layout marker.
C14_SpacerCenter ==
    \A j \in BlankSpacers : spine[j].properties = <<SpreadCenter, LayoutBlank>>

\* C14, amended: a blank spacer entry is never centered. The spacer before a page
\* is on the side on which a spread ends (right when not manga, left when manga)
\* and the spacer before the title page on the other side, each with the
\* blank-layout marker.
C14_SpacerSide ==
    \A j \in BlankSpacers :
        spine[j].properties =
            <<IF spine[j].idref.kind = "space" THEN ClosingSide ELSE OpeningSide, LayoutBlank>>

\* A manga spine that begins with the title spacer on the right, and has the
\* spacer of a double page on the left further on.
C14_Witness ==
    /\ AutoDone
    /\ content.ImageOptions.Manga
    /\ content.HasTitlePage
    /\ spine[1] = ItemRef(SpaceTitle, <<SpreadRight, LayoutBlank>>)
    /\ \E j \in BlankSpacers :
            /\ spine[j].idref.kind = "space"
            /\ spine[j].properties = <<SpreadLeft, LayoutBlank>>
            /\ spine[j + 1].properties = <<SpreadCenter>>

\* C15: when the loop over the images is over, a trailing spacer entry,
\* referencing the spacer of the last image, is appended exactly when Manga
\* equals the isOnTheRight left by the last page, which is exactly when the last
\* page is on the side on which a spread begins; it is never appended after a
\* last page that is a double page.
C15_TrailingSpacerIff ==
    [][spinePc = "images" /\ spinePc' = "done" =>
        LET last == content.Images[Len(content.Images)]
        IN  /\ (content.ImageOptions.Manga = isOnTheRight) <=> (last.Position = OpeningSide)
            /\ IF content.ImageOptions.Manga = isOnTheRight
               THEN /\ ~last.DoublePage
                    /\ Len(spine') = Len(spine) + 1
                    /\ SubSeq(spine', 1, Len(spine)) = spine
                    /\ spine'[Len(spine')].idref = SpaceKey(last)
               ELSE spine' = spine]_vars

\* A spine closed by the spacer of its last page, a second half on the left, and
\* in which a double page occurs.
C15_Witness ==
    /\ AutoDone
    /\ ~content.ImageOptions.Manga
    /\ Len(content.Images) >= 3
    /\ \E i \in DOMAIN content.Images : content.Images[i].DoublePage
    /\ content.Images[Len(content.Images)].Part = 2
    /\ content.Images[Len(content.Images)].Position = SpreadLeft
    /\ spine[Len(spine)].idref = SpaceKey(content.Images[Len(content.Images)])
    /\ spine[Len(spine)].properties = <<SpreadRight>>

\* C16: with PortraitOnly the spine has exactly one entry per page, the title page
\* first when there is one and then every image in the order of the list; no
\* entry has a spread property, none is a spacer, and no image has been given a
\* position.
C16_PortraitSpine ==
    spinePc = "done" /\ content.ImageOptions.View.PortraitOnly =>
        LET off == IF content.HasTitlePage THEN 1 ELSE 0
        IN  /\ Len(spine) = Len(content.Images) + off
            /\ content.HasTitlePage => spine[1].idref = PageTitle
            /\ \A i \in DOMAIN content.Images :
                    spine[i + off].idref = PageKey(content.Images[i])
            /\ \A j \in DOMAIN spine :
                    /\ spine[j].properties = <<>>
                    /\ spine[j].idref.kind \notin {"space", "space_title"}
            /\ \A i \in DOMAIN content.Images : content.Images[i].Position = ""
            /\ isOnTheRight = FALSE

\* A portrait spine of a title page, a double page and the two halves of a split
\* page, in manga mode.
C16_Witness ==
    /\ spinePc = "done"
    /\ content.ImageOptions.View.PortraitOnly
    /\ content.ImageOptions.Manga
    /\ content.HasTitlePage
    /\ Len(content.Images) = 4
    /\ content.Images[1].DoublePage
    /\ content.Images[3].Part = 1 /\ content.Images[4].Part = 2
    /\ ~content.Images[2].DoublePage /\ content.Images[2].Part = 0
    /\ Len(spine) = 5
    /\ spine[5] = ItemRef(PageKey(content.Images[4]), <<>>)

\* The entries of the spine that belong to the title page.
TitleEntries == { j \in DOMAIN spine : spine[j].idref \in {SpaceTitle, PageTitle} }

\* C17: the title page is at the head of the auto spine. In compatibility mode it
\* is one centered entry without a spacer; otherwise it is a blank title spacer
\* immediately followed by the title page, the two on opposite sides, left and
\* right.
C17_TitleAtHead ==
    spinePc \in {"images", "done"} /\ ~content.ImageOptions.View.PortraitOnly /\
            content.HasTitlePage =>
        IF content.ImageOptions.AppleBookCompatibility
        THEN /\ TitleEntries = {1}
             /\ spine[1] = ItemRef(PageTitle, <<SpreadCenter>>)
        ELSE /\ TitleEntries = {1, 2}
             /\ spine[1].idref = SpaceTitle
             /\ spine[2].idref = PageTitle
             /\ \E a, b \in {SpreadLeft, SpreadRight} :
                    /\ a # b
                    /\ spine[1].properties = <<a, LayoutBlank>>
                    /\ spine[2].properties = <<b>>

\* A finished spine in compatibility mode whose centered title page is followed
\* by a single page.
C17_Witness ==
    /\ AutoDone
    /\ content.HasTitlePage
    /\ content.ImageOptions.AppleBookCompatibility
    /\ ~content.ImageOptions.Manga
    /\ spine[1] = ItemRef(PageTitle, <<SpreadCenter>>)
    /\ spine[2] = ItemRef(PageKey(content.Images[1]), <<SpreadLeft>>)

\* A finished spine without compatibility mode: the title spacer on the left and
\* the title page on the right, then the first page.
C17_WitnessSpacer ==
    /\ AutoDone
    /\ content.HasTitlePage
    /\ ~content.ImageOptions.AppleBookCompatibility
    /\ ~content.ImageOptions.Manga
    /\ spine[1] = ItemRef(SpaceTitle, <<SpreadLeft, LayoutBlank>>)
    /\ spine[2] = ItemRef(PageTitle, <<SpreadRight>>)
    /\ spine[3].idref = PageKey(content.Images[1])

\* The parts of the page id that are in the list, and whether its part 0 is there
\* as a double page.
PartsOf(imgs, id) == { imgs[i].Part : i \in { j \in DOMAIN imgs : imgs[j].Id = id } }
HasDoublePart0(imgs, id) ==
    \E i \in DOMAIN imgs : imgs[i].Id = id /\ imgs[i].Part = 0 /\ imgs[i].DoublePage

\* The lists Load can return with the given KeepDoublePageIfSplit (processor.go
\* lines 87-88 and 101-105): halves come with their part 0 exactly when it is
\* kept, i.e. with KeepDoublePageIfSplit or for id 0; a half may be missing, as
\* a blank one is dropped; and once a page is split, AutoSplitDoublePage is on
\* and the only double page left unsplit is a cover, of id 0.
LoadCanReturn(imgs, keep) ==
    LET ids == { imgs[i].Id : i \in DOMAIN imgs }
        Halves(id) == PartsOf(imgs, id) \cap {1, 2} # {}
        split == \E id \in ids : Halves(id)
    IN  \A id \in ids :
            /\ Halves(id) =>
                    IF 0 \in PartsOf(imgs, id)
                    THEN HasDoublePart0(imgs, id) /\ (keep \/ id = 0)
                    ELSE ~keep /\ id > 0
            /\ split /\ HasDoublePart0(imgs, id) /\ ~Halves(id) => id = 0

\* C18: in the auto spine of a list that Load can return, every spacer that an
\* entry of the spine references, before a page, before the title page or at
\* the end, is an item of the manifest.
C18_SpacersDeclared ==
    AutoDone /\ LoadCanReturn(content.Images, content.ImageOptions.KeepDoublePageIfSplit) =>
        \A j \in DOMAIN spine :
            spine[j].idref.kind \in {"space", "space_title"} =>
                \E k \in DOMAIN manifest : manifest[k] = spine[j].idref

\* The position of entry j of the auto spine: the first of its properties.
Side(j) == spine[j].properties[1]

\* C19: in the finished auto spine, a centered entry is the first one or stands
\* behind a centered entry or behind an entry on the side on which a spread ends
\* (right when not manga, left when manga); two adjacent entries that are not
\* centered are on opposite sides; and the last entry is centered or on the side
\* on which a spread ends.
C19_SpreadClosure ==
    AutoDone =>
        /\ \A j \in DOMAIN spine :
                Side(j) = SpreadCenter =>
                    j = 1 \/ Side(j - 1) \in {SpreadCenter, ClosingSide}
        /\ \A j \in DOMAIN spine :
                j > 1 /\ Side(j) # SpreadCenter /\ Side(j - 1) # SpreadCenter =>
                    Side(j) # Side(j - 1)
        /\ Side(Len(spine)) \in {SpreadCenter, ClosingSide}

\* A manga spine in compatibility mode that opens with the spacer of a double
\* page, has a first half without its second half followed by another first
\* half, and is closed by a trailing spacer.
C19_Witness ==
    /\ AutoDone
    /\ content.ImageOptions.Manga /\ content.ImageOptions.AppleBookCompatibility
    /\ ~content.HasTitlePage
    /\ Len(content.Images) = 3
    /\ content.Images[1].DoublePage
    /\ content.Images[2].Part = 1 /\ content.Images[3].Part = 1
    /\ [j \in DOMAIN spine |-> Side(j)] =
           <<SpreadLeft, SpreadCenter, SpreadRight, SpreadLeft, SpreadRight, SpreadLeft>>

\* The content with the compatibility mode switched, and a spine without the
\* entries of the title page.
OtherCompatibility ==
    [content EXCEPT !.ImageOptions.AppleBookCompatibility = ~@]
NotTitleEntry(e) == e.idref \notin {SpaceTitle, PageTitle}
WithoutTitle(sp) == SelectSeq(sp, NotTitleEntry)

\* C20: with a title page, the auto spine built with the compatibility mode on
\* and the one built with it off, for the same images and the same manga flag,
\* give every image the same position and have the same spacer and page entries
\* after the title page; they differ in the entries of the title page only.
C20_CompatibilityOnlyTitle ==
    AutoDone /\ content.HasTitlePage =>
        LET other == getSpineAuto(OtherCompatibility)
        IN  /\ spine = getSpineAuto(content).spine
            /\ other.positions = Positions
            /\ WithoutTitle(other.spine) = WithoutTitle(spine)
            /\ other.spine # spine

\* A spine with a title page in compatibility mode, a spacer before a double page
\* and a trailing spacer, whose counterpart begins with the title spacer.
C20_Witness ==
    /\ AutoDone
    /\ content.HasTitlePage
    /\ content.ImageOptions.AppleBookCompatibility
    /\ Len(content.Images) >= 3
    /\ \E j \in BlankSpacers : spine[j].idref.kind = "space" /\ Side(j + 1) = SpreadCenter
    /\ spine[Len(spine)].idref.kind = "space"
    /\ spine[1].idref = PageTitle
    /\ getSpineAuto(OtherCompatibility).spine[1].idref = SpaceTitle
    /\ Len(getSpineAuto(OtherCompatibility).spine) = Len(spine) + 1

====
